---- MODULE Spec2Model ----
(***************************************************************************)
(* Model of the task-dispatch subsystem of the Ray cluster setup:          *)
(*   ray_tasks/task_manager.py   distribute_tasks (size hints, submission, *)
(*                               drain loop, retry, progress callback,     *)
(*                               timeout truncation, flattening)           *)
(*   ray_tasks/resource_utils.py get_optimal_resource_allocation           *)
(*   ray_tasks/error_handling.py retry (the wrapper), ErrorTracker         *)
(*                               (record_success, record_error,            *)
(*                               get_report), with_ray_error_handling,     *)
(*                               track_errors                              *)
(* Specifications:                                                         *)
(*   Spec          one call of distribute_tasks without size hints         *)
(*   SpecSized     one call of distribute_tasks with file_sizes            *)
(*   SpecAlloc     calls of get_optimal_resource_allocation on one host    *)
(*   SpecAllocHost the same on a host whose readings change                *)
(*   SpecRetry     one call of a function wrapped by retry                 *)
(*   SpecTracker   threads calling the ErrorTracker concurrently           *)
(*   SpecSeq       one caller of the ErrorTracker, and get_report          *)
(*   SpecStack     one call of a function wrapped by track_errors,         *)
(*                 with_ray_error_handling and retry (gpt_proxy.py)        *)
(*   SpecLive      Spec with every enabled loop iteration taken            *)
(* Items are identified by their position in the submitted list.  A future *)
(* is a record of the argument it was submitted with; which future becomes *)
(* ready next, and whether it resolves to a value or to an exception, is   *)
(* chosen by the execution substrate.                                      *)
(***************************************************************************)
EXTENDS Integers, Sequences, FiniteSets, TLC

\* ---------------------------------------------------------------- bounds
MaxItems == 3
MaxBatch == 2
MaxRetry == 2
MaxSizedItems == 3
MaxSizedRetry == 1
NumThreads == 2
MaxCalls == 1
MaxSeqCalls == 3
MaxCores == 6
MaxAttempts == 3

VARIABLES
  \* distribute_tasks: parameters and locals
  pc,               \* "start" | "drain" | "done" | "raised" | "index_error"
                    \* | "idle"
  items,            \* items, as the sequence of their positions <<1..n>>
  batch_size,       \* batch_size
  timeout,          \* TRUE when a timeout was passed (timeout is truthy)
  retry_param,      \* retry_attempts as passed by the caller
  retry_attempts,   \* the local retry_attempts, decremented by the drain loop
  futures,          \* futures: the futures of the submission loop
  pending_futures,  \* pending_futures
  results,          \* results
  completed,        \* completed
  ret,              \* the returned list (defined when pc = "done")
  progress_callback,\* TRUE when a progress_callback was passed
  task_type,        \* task_type
  memory_intensive, \* memory_intensive
  file_sizes,       \* file_sizes as passed (<<>> for None or an empty list)
  resources,        \* the local resources, as the submission loop leaves it
  cpu_count,        \* psutil.cpu_count(logical=True) on this host
  available_memory, \* psutil.virtual_memory().available on this host
  \* history of the call, read by the properties only
  timed_out,        \* the timeout branch (lines 221-225) was taken
  resolved,         \* number of futures ray.wait handed back as done
  attempts,         \* item -> number of futures submitted on it
  successes,        \* item -> number of futures on it that resolved to a value
  retried,          \* item -> number of resubmissions its failures triggered
  progress,         \* the calls progress_callback received, in order
  \* ErrorTracker and the threads calling it
  total_tasks,      \* ErrorTracker.total_tasks
  failed_tasks,     \* ErrorTracker.failed_tasks
  heap,             \* the per-type dict objects {'count', 'messages'}
  error_counts,     \* ErrorTracker.error_counts: error type -> object in heap
  tpc,              \* thread -> position inside record_success / record_error
  targ,             \* thread -> the (error_type, error_message) of its call
  tref,             \* thread -> dict object loaded by the running statement
  tmp,              \* thread -> value read by the running += statement
  calls,            \* thread -> number of calls it started
  calls_done,       \* number of record_* calls that returned
  errors_done,      \* number of record_error calls that returned
  call_budget,      \* thread -> number of calls it makes at most
  history,          \* arguments of the record_* calls that ended, in order
  report,           \* the dict the last get_report() returned
  \* get_optimal_resource_allocation called on its own
  alloc_args,       \* arguments of the last call
  alloc_host,       \* <<cpu_count, available_memory>> as the last call read them
  alloc_result,     \* the dict the last call returned
  alloc_prev,       \* arguments, readings and result of the call before it
  \* one call of a function wrapped by retry(...)
  rpc,              \* "idle" | "loop" | "returned" | "raised" | "fell_through"
  max_attempts,     \* max_attempts
  delay_seconds,    \* delay_seconds
  backoff_factor,   \* backoff_factor, as the fraction <<numerator, denominator>>
  on_retry,         \* TRUE when an on_retry callback was given
  attempt,          \* attempt
  current_delay,    \* current_delay, as a fraction
  outcomes,         \* history: outcome of each invocation of func, in order
  rtrace,           \* history: invocations of func, of on_retry and of time.sleep
  rresult,          \* what the wrapper returned or raised
  \* one call of a function stacked as
  \* track_errors(with_ray_error_handling(retry(...)(func)))
  stack             \* position of the call in the outer wrappers, and the class
                    \* of the exception in flight

\* arguments and host readings, which no step of the call assigns
dparams == <<progress_callback, task_type, memory_intensive, file_sizes,
             cpu_count, available_memory>>
dvars == <<pc, items, batch_size, timeout, retry_param, retry_attempts, futures,
           pending_futures, results, completed, ret, timed_out, resolved,
           attempts, successes, retried, progress, resources, dparams>>
tvars == <<total_tasks, failed_tasks, heap, error_counts, tpc, targ, tref, tmp,
           calls, calls_done, errors_done, call_budget, history, report>>
avars == <<alloc_args, alloc_host, alloc_result, alloc_prev>>
rvars == <<rpc, max_attempts, delay_seconds, backoff_factor, on_retry, attempt,
           current_delay, outcomes, rtrace, rresult>>
svars == <<stack>>
vars == <<dvars, tvars, avars, rvars, svars>>

\* what the steps of distribute_tasks, and of the tracker, leave alone
beside_dispatch == <<tvars, avars, rvars, svars>>
beside_tracker == <<dvars, avars, rvars, svars, call_budget, report>>
beside_alloc == <<dvars, tvars, rvars, svars>>

\* --------------------------------------------------------------- helpers
Range(s) == {s[k] : k \in 1..Len(s)}

Min(a, b) == IF a < b THEN a ELSE b

\* list without its k-th element (the not-ready list ray.wait returns)
Remove(s, k) == [j \in 1..(Len(s) - 1) |-> IF j < k THEN s[j] ELSE s[j + 1]]

Zero == [i \in 1..MaxItems |-> 0]

Bump(f, S) == [i \in DOMAIN f |-> IF i \in S THEN f[i] + 1 ELSE f[i]]

\* ---------------------------------------------------- allocation policy
\* file_size = None
NoSize == -1

\* thresholds and the fixed memory request of lines 86, 89, 91
OneGB == 1000000000
HundredMB == 100000000
OneGiB == 1073741824

Max(a, b) == IF a > b THEN a ELSE b

\* the readings up to 1000 whose product with the double 0.7 lies below an
\* integer that 7x/10 reaches: int(90 * 0.7) is 62
FloatShort ==
  {90, 170, 180, 330, 340, 350, 360, 650, 660, 670, 680, 690, 700, 710, 720, 730}

\* int(available_memory * 0.7) (line 79), for readings up to 1000: the
\* product is a double and is truncated
SeventyPercent(x) ==
  IF x \in FloatShort THEN (x * 7) \div 10 - 1 ELSE (x * 7) \div 10

\* int(available_memory * 0.6) (line 88): the floor of 6x/10 on every
\* reading of the model
SixtyPercent(x) == (x * 6) \div 10

\* a resources dict: the keys that are set, with their values
Dict1(k1, v1) == [x \in {k1} |-> v1]
Dict2(k1, v1, k2, v2) == [x \in {k1, k2} |-> IF x = k1 THEN v1 ELSE v2]

\* an allocation that tests gpu_required before the memory rule
AllocateGpuFirst(tt, fs, mi, cores, avail) ==
  IF tt = "cpu_intensive" THEN Dict1("num_cpus", Max(1, cores - 1))
  ELSE IF tt = "gpu_required" THEN Dict2("num_gpus", 1, "num_cpus", 1)
  ELSE IF tt = "memory_intensive" \/ mi
    THEN Dict2("memory", SeventyPercent(avail), "num_cpus", Max(1, cores \div 2))
  ELSE IF fs # NoSize
    THEN IF fs > OneGB
           THEN Dict2("num_cpus", Max(2, cores \div 2),
                      "memory", SixtyPercent(avail))
         ELSE IF fs > HundredMB
           THEN Dict2("num_cpus", 2, "memory", OneGiB)
         ELSE Dict1("num_cpus", 1)
  ELSE Dict1("num_cpus", 1)

\* an allocation that gives a single CPU once a cpu_intensive request was
\* served, whatever is asked
AllocateLoadAware(tt, fs, mi, cores, avail) ==
  IF alloc_args.task_type = "cpu_intensive" \/ tt # "cpu_intensive"
    THEN Dict1("num_cpus", 1)
    ELSE Dict1("num_cpus", Max(1, cores - 1))

\* an allocation that tests the size hint before gpu_required
AllocateSizeFirst(tt, fs, mi, cores, avail) ==
  IF tt = "cpu_intensive" THEN Dict1("num_cpus", Max(1, cores - 1))
  ELSE IF tt = "memory_intensive" \/ mi
    THEN Dict2("memory", SeventyPercent(avail), "num_cpus", Max(1, cores \div 2))
  ELSE IF fs # NoSize
    THEN IF fs > OneGB
           THEN Dict2("num_cpus", Max(2, cores \div 2), "memory", SixtyPercent(avail))
         ELSE IF fs > HundredMB THEN Dict2("num_cpus", 2, "memory", OneGiB)
         ELSE Dict1("num_cpus", 1)
  ELSE IF tt = "gpu_required" THEN Dict2("num_gpus", 1, "num_cpus", 1)
  ELSE Dict1("num_cpus", 1)

\* get_optimal_resource_allocation (lines 51-99); cores and avail are the
\* readings of lines 70-71
Allocate(tt, fs, mi, cores, avail) ==
  IF tt = "cpu_intensive" THEN Dict1("num_cpus", Max(1, cores - 1))
  ELSE IF tt = "memory_intensive" \/ mi
    THEN Dict2("memory", SeventyPercent(avail), "num_cpus", Max(1, cores \div 2))
  ELSE IF tt = "gpu_required" THEN Dict2("num_gpus", 1, "num_cpus", 1)
  ELSE IF fs # NoSize
    THEN IF fs > OneGB
           THEN Dict2("num_cpus", Max(2, cores \div 2),
                      "memory", SixtyPercent(avail))
         ELSE IF fs > HundredMB
           THEN Dict2("num_cpus", 2, "memory", OneGiB)
         ELSE Dict1("num_cpus", 1)
  ELSE Dict1("num_cpus", 1)

\* no call of get_optimal_resource_allocation on its own was made
NoCall == [task_type |-> "none", file_size |-> NoSize, memory_intensive |-> FALSE]

NoPrev == [args |-> NoCall, host |-> <<0, 0>>, result |-> <<>>]

AllocIdle ==
  /\ alloc_args = NoCall
  /\ alloc_host = <<0, 0>>
  /\ alloc_result = <<>>
  /\ alloc_prev = NoPrev

\* ---------------------------------------------------- the retry wrapper
\* nothing returned or raised yet
NoResult == [kind |-> "none", of |-> 0]

\* no wrapped function is being called
RetryIdle ==
  /\ rpc = "idle"
  /\ max_attempts = 0
  /\ delay_seconds = 0
  /\ backoff_factor = <<1, 1>>
  /\ on_retry = FALSE
  /\ attempt = 0
  /\ current_delay = <<0, 1>>
  /\ outcomes = <<>>
  /\ rtrace = <<>>
  /\ rresult = NoResult

\* no stacked function is being called
StackIdle == stack = [pc |-> "idle", error |-> ""]

\* ------------------------------------------------------- submission loop
\* number of units of work: len(batched_items) or len(items)
NumUnits ==
  IF batch_size > 1
    THEN (Len(items) + batch_size - 1) \div batch_size
    ELSE Len(items)

\* batched_items[k] = items[i:i+batch_size], i = (k-1)*batch_size (line 120)
Batch(k) ==
  SubSeq(items, (k - 1) * batch_size + 1, Min(k * batch_size, Len(items)))

\* file_sizes kept although its length differs from that of items
ValidatedSizesKept(fs) == fs

\* lines 110-115: a file_sizes of another length than items is set to None
ValidatedSizes(fs) ==
  IF fs # <<>> /\ Len(fs) # Len(items) THEN <<>> ELSE fs

\* batched_file_sizes[k] = file_sizes[i:i+batch_size] (line 125)
SizeBatch(fs, k) ==
  SubSeq(fs, (k - 1) * batch_size + 1, Min(k * batch_size, Len(fs)))

\* the size of the first file of the batch
SeqFirst(q) == q[1]

\* max(batched_file_sizes[i]) (line 135)
RECURSIVE SeqMax(_)
SeqMax(q) ==
  IF Len(q) = 1 THEN q[1] ELSE Max(Head(q), SeqMax(Tail(q)))

\* file_sizes[i] (line 161) and max(batched_file_sizes[i]) (line 135) are
\* defined: neither an IndexError nor the ValueError of max([])
SizeIndexOK(k) ==
  LET fs == ValidatedSizes(file_sizes)
  IN  \/ fs = <<>>
      \/ batch_size = 1 /\ k <= Len(fs)
      \/ batch_size > 1 /\ (k - 1) * batch_size + 1 <= Len(fs)

\* the file_size argument of the allocation of unit k (lines 133-145, 158-168)
SizeHint(k) ==
  LET fs == ValidatedSizes(file_sizes)
  IN  IF fs = <<>> THEN NoSize
      ELSE IF batch_size > 1 THEN SeqMax(SizeBatch(fs, k))
      ELSE fs[k]

\* resources of unit k (lines 136-145, 159-168)
UnitResources(k) ==
  Allocate(task_type, SizeHint(k), memory_intensive, cpu_count, available_memory)

\* a future: the argument of the .remote() call that made it.  is_list tells
\* whether the argument is a batch (a list) or a single item.  orig and
\* orig_list are the argument of the future whose failure it retries (its own
\* for a future of the submission loop), orig_resources the resource request
\* of that future.  hint is the file_size its resources were computed from.
Future(arg, isl, oarg, oisl, isretry, szh, res, ores) ==
  [input |-> arg, is_list |-> isl, orig |-> oarg, orig_list |-> oisl,
   is_retry |-> isretry, hint |-> szh, resources |-> res,
   orig_resources |-> ores]

\* optimized_task.remote(batch) (line 151) / optimized_task.remote(item) (174)
InitialFuture(k) ==
  IF batch_size > 1
    THEN Future(Batch(k), TRUE, Batch(k), TRUE, FALSE,
                SizeHint(k), UnitResources(k), UnitResources(k))
    ELSE Future(<<items[k]>>, FALSE, <<items[k]>>, FALSE, FALSE,
                SizeHint(k), UnitResources(k), UnitResources(k))

InitialFutures == [k \in 1..NumUnits |-> InitialFuture(k)]

\* ------------------------------------------------------------ drain loop
\* ray.get(future) returned: the value of task_func on the future's argument.
\* A batch yields the list of its per-item results.
OkResult(f) == [kind |-> "ok", input |-> f.input, is_list |-> f.is_list]

\* {"error": str(e)} (line 218)
ErrorResult(f) == [kind |-> "error", input |-> f.input, is_list |-> FALSE]

\* None (line 224), tagged with the argument of the abandoned future
NoneResult(f) == [kind |-> "none", input |-> f.input, is_list |-> FALSE]

\* an index that counts the failed future as completed
RetryIndexNext(done) == done + 2

\* items[completed] (line 211): Python indexes from 0
RetryIndex(done) == done + 1

\* ray.remote(**resources)(task_func).remote(items[completed]) (line 211):
\* resources is what the last iteration of the submission loop assigned
RetryFuture(f, done) ==
  Future(<<items[RetryIndex(done)]>>, FALSE, f.input, f.is_list, TRUE,
         SizeHint(NumUnits), resources, f.resources)

\* a callback that is told the number of items, not of futures
OnProgressItems(log, done) == Append(log, <<done, Len(items)>>)

\* progress_callback(completed, len(futures)) (line 200)
OnProgress(log, done) == Append(log, <<done, Len(futures)>>)

\* results.append(result) (line 195)
OnSuccess(res, f) == Append(res, OkResult(f))

\* a terminal failure recorded as a None entry
OnTerminalFailureNone(res, f) == Append(res, NoneResult(f))

\* a terminal failure that appends nothing
OnTerminalFailureDropped(res, f) == res

\* results.append({"error": str(e)}) (line 218)
OnTerminalFailure(res, f) == Append(res, ErrorResult(f))

\* a fill that skips the resubmitted futures
TimeoutFillInitialOnly(res, pend) ==
  LET keep == SelectSeq(pend, LAMBDA f : ~f.is_retry)
  IN  res \o [k \in 1..Len(keep) |-> NoneResult(keep[k])]

\* results.extend([None] * len(pending_futures)) (line 224)
TimeoutFill(res, pend) == res \o [k \in 1..Len(pend) |-> NoneResult(pend[k])]

\* ----------------------------------------------------------- flattening
ItemResults(r) == [j \in 1..Len(r.input) |->
                     [kind |-> r.kind, input |-> <<r.input[j]>>, is_list |-> FALSE]]

\* a flattening that gives every item of a batch an entry, whatever the
\* result of the batch is
RECURSIVE FlattenAll(_)
FlattenAll(res) ==
  IF res = <<>> THEN <<>> ELSE ItemResults(Head(res)) \o FlattenAll(Tail(res))

\* a flattening that appends every batch result unexpanded
FlattenNoExtend(res) == res

\* lines 232-239
RECURSIVE Flatten(_)
Flatten(res) ==
  IF res = <<>> THEN <<>>
  ELSE LET r == Head(res)
       IN  (IF r.is_list THEN ItemResults(r) ELSE <<r>>) \o Flatten(Tail(res))

\* lines 230-241
Return(res) == IF batch_size > 1 THEN Flatten(res) ELSE res

\* ------------------------------------------------------------ the tracker
Threads == 1..NumThreads
ErrorTypes == {"ValueError", "KeyError"}
Messages == {"m1", "m2"}
NoArg == [type |-> "", msg |-> ""]
EmptyDict == [x \in {} |-> 0]

\* no get_report() was called
NoReport ==
  [total_tasks |-> 0, failed_tasks |-> 0, success_rate |-> <<0, 1>>,
   error_types |-> EmptyDict, after |-> -1]

\* ErrorTracker.__init__ (lines 196-199), no call running
TrackerAtRest ==
  /\ total_tasks = 0
  /\ failed_tasks = 0
  /\ heap = <<>>
  /\ error_counts = EmptyDict
  /\ tpc = [t \in Threads |-> "idle"]
  /\ targ = [t \in Threads |-> NoArg]
  /\ tref = [t \in Threads |-> 0]
  /\ tmp = [t \in Threads |-> 0]
  /\ calls = [t \in Threads |-> 0]
  /\ calls_done = 0
  /\ errors_done = 0
  /\ history = <<>>
  /\ report = NoReport

\* every thread makes up to MaxCalls calls
TrackerInit ==
  /\ TrackerAtRest
  /\ call_budget = [t \in Threads |-> MaxCalls]

\* ------------------------------------------------------ distribute_tasks
\* the call's arguments; nothing submitted yet
DispatchLocals ==
  /\ pc = "start"
  /\ retry_attempts = retry_param
  /\ futures = <<>>
  /\ pending_futures = <<>>
  /\ results = <<>>
  /\ completed = 0
  /\ ret = <<>>
  /\ resources = <<>>
  /\ timed_out = FALSE
  /\ resolved = 0
  /\ attempts = Zero
  /\ successes = Zero
  /\ retried = Zero
  /\ progress = <<>>

\* the host readings of the dispatch specifications
HostStill ==
  /\ cpu_count = 8
  /\ available_memory = 1000

\* a call without size hints, of the default task type
DispatchInit ==
  /\ items \in {[i \in 1..n |-> i] : n \in 0..MaxItems}
  /\ batch_size \in 1..MaxBatch
  /\ timeout \in BOOLEAN
  /\ retry_param \in 0..MaxRetry
  /\ progress_callback \in BOOLEAN
  /\ task_type = "default"
  /\ memory_intensive = FALSE
  /\ file_sizes = <<>>
  /\ HostStill
  /\ DispatchLocals

\* the size hints of the calls with file_sizes: 50 MB and 200 MB
SizeValues == {50000000, 200000000}

SeqsUpTo(S, n) == UNION {[1..m -> S] : m \in 0..n}

\* a call with size hints, without callback
SizedInit ==
  /\ items \in {[i \in 1..n |-> i] : n \in 0..MaxSizedItems}
  /\ batch_size \in 1..MaxBatch
  /\ timeout \in BOOLEAN
  /\ retry_param \in {0, MaxSizedRetry}
  /\ progress_callback = FALSE
  /\ task_type = "default"
  /\ memory_intensive = FALSE
  /\ file_sizes \in SeqsUpTo(SizeValues, MaxSizedItems + 1)
  /\ Len(file_sizes) \in {0, Len(items) - 1, Len(items), Len(items) + 1}
  /\ HostStill
  /\ DispatchLocals

Init == DispatchInit /\ TrackerInit /\ AllocIdle /\ RetryIdle /\ StackIdle

\* the locals and the history of the call
dlocals == <<retry_attempts, futures, pending_futures, results, completed, ret,
             timed_out, resolved, attempts, successes, retried, progress,
             resources>>

\* an exception of the substrate leaves distribute_tasks: nothing is returned
Raise ==
  /\ pc' = "raised"
  /\ UNCHANGED <<items, batch_size, timeout, retry_param, dlocals>>

\* an IndexError leaves distribute_tasks: nothing is returned
RaiseIndexError ==
  /\ pc' = "index_error"
  /\ UNCHANGED <<items, batch_size, timeout, retry_param, dlocals>>

\* lines 106-181: the submission loop.  A .remote() call the substrate
\* rejects raises out of the loop, which has no handler.
Submit ==
  /\ pc = "start"
  /\ UNCHANGED <<beside_dispatch, dparams>>
  /\ \/ /\ NumUnits > 0
        /\ Raise
     \/ IF \E k \in 1..NumUnits : ~SizeIndexOK(k)
          THEN RaiseIndexError
          ELSE /\ futures' = InitialFutures
               /\ pending_futures' = InitialFutures
               /\ attempts' = Bump(attempts, Range(items))
               /\ resources' = IF NumUnits > 0 THEN UnitResources(NumUnits)
                                               ELSE resources
               /\ IF NumUnits = 0
                    THEN pc' = "done" /\ ret' = Return(<<>>)
                    ELSE pc' = "drain" /\ ret' = ret
               /\ UNCHANGED <<items, batch_size, timeout, retry_param,
                              retry_attempts, results, completed, timed_out,
                              resolved, successes, retried, progress>>

\* a loop that goes on with no future pending
LoopEndsNever(pend) == FALSE

\* line 183: while pending_futures is left when the list is empty
LoopEnds(pend) == pend = <<>>

\* lines 220-225 and the loop condition of line 183, then lines 229-241 when
\* the loop ends: late tells whether time.time() - start_time > timeout
EndOfIteration(res, pend, late) ==
  IF late
    THEN /\ results' = TimeoutFill(res, pend)
         /\ pending_futures' = pend
         /\ timed_out' = TRUE
         /\ pc' = "done"
         /\ ret' = Return(TimeoutFill(res, pend))
    ELSE /\ results' = res
         /\ pending_futures' = pend
         /\ timed_out' = timed_out
         /\ IF LoopEnds(pend)
              THEN pc' = "done" /\ ret' = Return(res)
              ELSE pc' = "drain" /\ ret' = ret

\* lines 185-200: ray.wait hands back pending_futures[k], ray.get returns
TaskSucceeded(k, late) ==
  /\ pc = "drain"
  /\ UNCHANGED <<beside_dispatch, dparams>>
  /\ k \in 1..Len(pending_futures)
  /\ late => timeout
  /\ LET f == pending_futures[k]
     IN  /\ completed' = completed + 1
         /\ resolved' = resolved + 1
         /\ successes' = Bump(successes, Range(f.input))
         /\ progress' = IF progress_callback
                           THEN OnProgress(progress, completed + 1)
                           ELSE progress
         /\ EndOfIteration(OnSuccess(results, f), Remove(pending_futures, k), late)
  /\ UNCHANGED <<items, batch_size, timeout, retry_param, retry_attempts,
                 futures, attempts, retried, resources>>

\* a resubmission that leaves the budget as it is
SpendNothing(budget) == budget

\* line 214: retry_attempts -= 1
Spend(budget) == budget - 1

\* lines 185-194, 202-215: ray.get raises and retry_attempts > 0.  The
\* resubmission is inside the except block: an IndexError of items[completed]
\* or a rejected .remote() call leaves distribute_tasks.
TaskFailedRetry(k, late, accepted) ==
  /\ pc = "drain"
  /\ UNCHANGED <<beside_dispatch, dparams>>
  /\ k \in 1..Len(pending_futures)
  /\ late => timeout
  /\ retry_attempts > 0
  /\ LET f == pending_futures[k]
     IN  IF RetryIndex(completed) \notin 1..Len(items)
           THEN RaiseIndexError
         ELSE IF ~accepted
           THEN Raise
           ELSE /\ retry_attempts' = Spend(retry_attempts)
                /\ resolved' = resolved + 1
                /\ attempts' = Bump(attempts, {items[RetryIndex(completed)]})
                /\ retried' = Bump(retried, Range(f.input))
                /\ EndOfIteration(results,
                     Append(Remove(pending_futures, k), RetryFuture(f, completed)),
                     late)
                /\ UNCHANGED <<items, batch_size, timeout, retry_param, futures,
                               completed, successes, progress, resources>>

\* lines 185-194, 202-203, 216-218: ray.get raises and no retry is left
TaskFailedFinal(k, late) ==
  /\ pc = "drain"
  /\ UNCHANGED <<beside_dispatch, dparams>>
  /\ k \in 1..Len(pending_futures)
  /\ late => timeout
  /\ retry_attempts = 0
  /\ LET f == pending_futures[k]
     IN  /\ resolved' = resolved + 1
         /\ EndOfIteration(OnTerminalFailure(results, f),
                           Remove(pending_futures, k), late)
  /\ UNCHANGED <<items, batch_size, timeout, retry_param, retry_attempts,
                 futures, completed, attempts, successes, retried, progress,
                 resources>>

\* lines 185-189, 220-225: ray.wait returns no future after timeout seconds
WaitTimedOut ==
  /\ pc = "drain"
  /\ UNCHANGED <<beside_dispatch, dparams>>
  /\ timeout
  /\ pending_futures # <<>>
  /\ EndOfIteration(results, pending_futures, TRUE)
  /\ UNCHANGED <<items, batch_size, timeout, retry_param, retry_attempts,
                 futures, completed, resolved, attempts, successes, retried,
                 progress, resources>>

Next ==
  \/ Submit
  \/ \E k \in 1..Len(pending_futures), late \in BOOLEAN : TaskSucceeded(k, late)
  \/ \E k \in 1..Len(pending_futures), late \in BOOLEAN, accepted \in BOOLEAN :
       TaskFailedRetry(k, late, accepted)
  \/ \E k \in 1..Len(pending_futures), late \in BOOLEAN : TaskFailedFinal(k, late)
  \/ WaitTimedOut

Spec == Init /\ [][Next]_vars

\* every submitted future resolves in the end, so that ray.wait returns: an
\* iteration of the drain loop that can be taken is taken
SpecLive == Init /\ [][Next]_vars /\ WF_vars(Next)

\* distribute_tasks called with file_sizes
SizedSpecInit == SizedInit /\ TrackerInit /\ AllocIdle /\ RetryIdle /\ StackIdle

SpecSized == SizedSpecInit /\ [][Next]_vars

\* ------------------------------------------- ErrorTracker under threads
\* Each thread runs record_success / record_error one bytecode-level step at
\* a time: a += is a read followed by a write, and the class takes no lock.

\* no distribute_tasks call is running
DispatchAtRest ==
  /\ pc = "idle"
  /\ items = <<>>
  /\ batch_size = 1
  /\ timeout = FALSE
  /\ retry_param = 0
  /\ retry_attempts = 0
  /\ futures = <<>>
  /\ pending_futures = <<>>
  /\ results = <<>>
  /\ completed = 0
  /\ ret = <<>>
  /\ timed_out = FALSE
  /\ resolved = 0
  /\ attempts = Zero
  /\ successes = Zero
  /\ retried = Zero
  /\ progress = <<>>
  /\ resources = <<>>
  /\ progress_callback = FALSE
  /\ task_type = "default"
  /\ memory_intensive = FALSE
  /\ file_sizes = <<>>

DispatchIdle == DispatchAtRest /\ HostStill

TrackerSpecInit == DispatchIdle /\ TrackerInit /\ AllocIdle /\ RetryIdle /\ StackIdle

\* a dict object that starts with a count of 1
NewEntryCounted == [count |-> 1, messages |-> EmptyDict, order |-> <<>>]

\* the dict object {'count': 0, 'messages': {}} (lines 211-214)
\* order holds the keys of messages in the order of their insertion
NewEntry == [count |-> 0, messages |-> EmptyDict, order |-> <<>>]

\* d[k] = v on a dict
Store(d, k, v) == [x \in DOMAIN d \cup {k} |-> IF x = k THEN v ELSE d[x]]

\* the call returns (or raises) to its caller
Return_(t, iserror) ==
  /\ tpc' = [tpc EXCEPT ![t] = "idle"]
  /\ targ' = [targ EXCEPT ![t] = NoArg]
  /\ tref' = [tref EXCEPT ![t] = 0]
  /\ tmp' = [tmp EXCEPT ![t] = 0]
  /\ calls_done' = calls_done + 1
  /\ errors_done' = errors_done + (IF iserror THEN 1 ELSE 0)
  /\ history' = Append(history, targ[t])

\* error_tracker.record_success() is called (line 259)
CallSuccess(t) ==
  /\ pc = "idle"
  /\ tpc[t] = "idle"
  /\ calls[t] < call_budget[t]
  /\ calls' = [calls EXCEPT ![t] = @ + 1]
  /\ tpc' = [tpc EXCEPT ![t] = "s_read"]
  /\ UNCHANGED <<beside_tracker, total_tasks, failed_tasks, heap, error_counts, targ,
                 tref, tmp, calls_done, errors_done, history>>

\* error_tracker.record_error(error_type, error_message) is called (line 264)
CallError(t, ty, m) ==
  /\ pc = "idle"
  /\ tpc[t] = "idle"
  /\ calls[t] < call_budget[t]
  /\ calls' = [calls EXCEPT ![t] = @ + 1]
  /\ tpc' = [tpc EXCEPT ![t] = "e_total_read"]
  /\ targ' = [targ EXCEPT ![t] = [type |-> ty, msg |-> m]]
  /\ UNCHANGED <<beside_tracker, total_tasks, failed_tasks, heap, error_counts, tref,
                 tmp, calls_done, errors_done, history>>

\* self.total_tasks += 1 (lines 203, 207): the read
ReadTotal(t) ==
  /\ tpc[t] \in {"s_read", "e_total_read"}
  /\ tmp' = [tmp EXCEPT ![t] = total_tasks]
  /\ tpc' = [tpc EXCEPT ![t] = IF tpc[t] = "s_read" THEN "s_write"
                                                    ELSE "e_total_write"]
  /\ UNCHANGED <<beside_tracker, total_tasks, failed_tasks, heap, error_counts, targ,
                 tref, calls, calls_done, errors_done, history>>

\* self.total_tasks += 1 (line 203): the write, and record_success returns
WriteTotalSuccess(t) ==
  /\ tpc[t] = "s_write"
  /\ total_tasks' = tmp[t] + 1
  /\ Return_(t, FALSE)
  /\ UNCHANGED <<beside_tracker, failed_tasks, heap, error_counts, calls>>

\* self.total_tasks += 1 (line 207): the write
WriteTotalError(t) ==
  /\ tpc[t] = "e_total_write"
  /\ total_tasks' = tmp[t] + 1
  /\ tpc' = [tpc EXCEPT ![t] = "e_failed_read"]
  /\ UNCHANGED <<beside_tracker, failed_tasks, heap, error_counts, targ, tref, tmp,
                 calls, calls_done, errors_done, history>>

\* self.failed_tasks += 1 (line 208): the read
ReadFailed(t) ==
  /\ tpc[t] = "e_failed_read"
  /\ tmp' = [tmp EXCEPT ![t] = failed_tasks]
  /\ tpc' = [tpc EXCEPT ![t] = "e_failed_write"]
  /\ UNCHANGED <<beside_tracker, total_tasks, failed_tasks, heap, error_counts, targ,
                 tref, calls, calls_done, errors_done, history>>

\* self.failed_tasks += 1 (line 208): the write
WriteFailed(t) ==
  /\ tpc[t] = "e_failed_write"
  /\ failed_tasks' = tmp[t] + 1
  /\ tpc' = [tpc EXCEPT ![t] = "e_type_check"]
  /\ UNCHANGED <<beside_tracker, total_tasks, heap, error_counts, targ, tref, tmp,
                 calls, calls_done, errors_done, history>>

\* if error_type not in self.error_counts (line 210)
TypeCheck(t) ==
  /\ tpc[t] = "e_type_check"
  /\ tpc' = [tpc EXCEPT ![t] = IF targ[t].type \in DOMAIN error_counts
                                 THEN "e_count_read" ELSE "e_type_init"]
  /\ UNCHANGED <<beside_tracker, total_tasks, failed_tasks, heap, error_counts, targ,
                 tref, tmp, calls, calls_done, errors_done, history>>

\* self.error_counts[error_type] = {'count': 0, 'messages': {}} (211-214)
TypeInit(t) ==
  /\ tpc[t] = "e_type_init"
  /\ heap' = Append(heap, NewEntry)
  /\ error_counts' = Store(error_counts, targ[t].type, Len(heap) + 1)
  /\ tpc' = [tpc EXCEPT ![t] = "e_count_read"]
  /\ UNCHANGED <<beside_tracker, total_tasks, failed_tasks, targ, tref, tmp, calls,
                 calls_done, errors_done, history>>

\* self.error_counts[error_type]['count'] += 1 (line 216): the read
CountRead(t) ==
  /\ tpc[t] = "e_count_read"
  /\ tref' = [tref EXCEPT ![t] = error_counts[targ[t].type]]
  /\ tmp' = [tmp EXCEPT ![t] = heap[error_counts[targ[t].type]].count]
  /\ tpc' = [tpc EXCEPT ![t] = "e_count_write"]
  /\ UNCHANGED <<beside_tracker, total_tasks, failed_tasks, heap, error_counts, targ,
                 calls, calls_done, errors_done, history>>

\* self.error_counts[error_type]['count'] += 1 (line 216): the write, into
\* the dict object the read loaded
CountWrite(t) ==
  /\ tpc[t] = "e_count_write"
  /\ heap' = [heap EXCEPT ![tref[t]].count = tmp[t] + 1]
  /\ tpc' = [tpc EXCEPT ![t] = "e_msg_check"]
  /\ UNCHANGED <<beside_tracker, total_tasks, failed_tasks, error_counts, targ, tref,
                 tmp, calls, calls_done, errors_done, history>>

\* if error_message not in self.error_counts[error_type]['messages'] (218)
MsgCheck(t) ==
  /\ tpc[t] = "e_msg_check"
  /\ tpc' = [tpc EXCEPT ![t] =
               IF targ[t].msg \in DOMAIN heap[error_counts[targ[t].type]].messages
                 THEN "e_msg_read" ELSE "e_msg_init"]
  /\ UNCHANGED <<beside_tracker, total_tasks, failed_tasks, heap, error_counts, targ,
                 tref, tmp, calls, calls_done, errors_done, history>>

\* self.error_counts[error_type]['messages'][error_message] = 0 (line 219)
MsgInit(t) ==
  /\ tpc[t] = "e_msg_init"
  /\ heap' = [heap EXCEPT ![error_counts[targ[t].type]] =
                [count |-> @.count,
                 messages |-> Store(@.messages, targ[t].msg, 0),
                 order |-> IF targ[t].msg \in DOMAIN @.messages
                             THEN @.order
                             ELSE Append(@.order, targ[t].msg)]]
  /\ tpc' = [tpc EXCEPT ![t] = "e_msg_read"]
  /\ UNCHANGED <<beside_tracker, total_tasks, failed_tasks, error_counts, targ, tref,
                 tmp, calls, calls_done, errors_done, history>>

\* self.error_counts[error_type]['messages'][error_message] += 1 (line 221):
\* the read; a KeyError when another thread replaced the type's dict meanwhile
MsgRead(t) ==
  /\ tpc[t] = "e_msg_read"
  /\ LET r == error_counts[targ[t].type]
     IN  IF targ[t].msg \in DOMAIN heap[r].messages
           THEN /\ tref' = [tref EXCEPT ![t] = r]
                /\ tmp' = [tmp EXCEPT ![t] = heap[r].messages[targ[t].msg]]
                /\ tpc' = [tpc EXCEPT ![t] = "e_msg_write"]
                /\ UNCHANGED <<targ, calls_done, errors_done, history>>
           ELSE Return_(t, TRUE)
  /\ UNCHANGED <<beside_tracker, total_tasks, failed_tasks, heap, error_counts, calls>>

\* self.error_counts[error_type]['messages'][error_message] += 1 (line 221):
\* the write, and record_error returns
MsgWrite(t) ==
  /\ tpc[t] = "e_msg_write"
  /\ heap' = [heap EXCEPT ![tref[t]].messages =
                Store(@, targ[t].msg, tmp[t] + 1)]
  /\ Return_(t, TRUE)
  /\ UNCHANGED <<beside_tracker, total_tasks, failed_tasks, error_counts, calls>>

\* the statements of record_success and record_error
TrackerSteps ==
  \/ \E t \in Threads : ReadTotal(t)
  \/ \E t \in Threads : WriteTotalSuccess(t)
  \/ \E t \in Threads : WriteTotalError(t)
  \/ \E t \in Threads : ReadFailed(t)
  \/ \E t \in Threads : WriteFailed(t)
  \/ \E t \in Threads : TypeCheck(t)
  \/ \E t \in Threads : TypeInit(t)
  \/ \E t \in Threads : CountRead(t)
  \/ \E t \in Threads : CountWrite(t)
  \/ \E t \in Threads : MsgCheck(t)
  \/ \E t \in Threads : MsgInit(t)
  \/ \E t \in Threads : MsgRead(t)
  \/ \E t \in Threads : MsgWrite(t)

TrackerNext ==
  \/ \E t \in Threads : CallSuccess(t)
  \/ \E t \in Threads, ty \in ErrorTypes, m \in Messages : CallError(t, ty, m)
  \/ TrackerSteps

SpecTracker == TrackerSpecInit /\ [][TrackerNext]_vars

\* ErrorTracker.get_report (lines 223-240): the two counters of the report
ReportTotalTasks == total_tasks
ReportFailedTasks == failed_tasks

\* ------------------------------------------ ErrorTracker, one caller
\* a maximum that takes the last of the equal counts
LastMaxKey(e) ==
  LET i == CHOOSE i \in 1..Len(e.order) :
             /\ \A j \in 1..Len(e.order) :
                  e.messages[e.order[j]] <= e.messages[e.order[i]]
             /\ \A j \in (i + 1)..Len(e.order) :
                  e.messages[e.order[j]] < e.messages[e.order[i]]
  IN  e.order[i]

\* max(data['messages'].items(), key=lambda x: x[1])[0] (lines 233-236):
\* max returns the first of the largest items in the order of iteration,
\* which for a dict is the order of insertion
FirstMaxKey(e) ==
  LET i == CHOOSE i \in 1..Len(e.order) :
             /\ \A j \in 1..Len(e.order) :
                  e.messages[e.order[j]] <= e.messages[e.order[i]]
             /\ \A j \in 1..(i - 1) :
                  e.messages[e.order[j]] < e.messages[e.order[i]]
  IN  e.order[i]

\* a quotient of two ints (the / of lines 228, 232), as a fraction; 0 when
\* the denominator is 0
Quotient(a, b) == IF b # 0 THEN <<a, b>> ELSE <<0, 1>>

\* the value of error_types for one type (lines 230-237)
TypeReport(e) ==
  [count |-> e.count,
   percentage |-> Quotient(e.count, failed_tasks),
   most_common_message |-> IF e.order # <<>> THEN FirstMaxKey(e) ELSE "None"]

\* the dict get_report builds (lines 225-240); after is the number of calls
\* that had ended
Report ==
  [total_tasks |-> total_tasks,
   failed_tasks |-> failed_tasks,
   success_rate |-> Quotient(total_tasks - failed_tasks, total_tasks),
   error_types |-> [ty \in DOMAIN error_counts |-> TypeReport(heap[error_counts[ty]])],
   after |-> Len(history)]

\* error_tracker.get_report() between two calls
GetReport ==
  /\ \A t \in Threads : tpc[t] = "idle"
  /\ report' = Report
  /\ UNCHANGED <<dvars, avars, rvars, svars, total_tasks, failed_tasks, heap,
                 error_counts, tpc, targ, tref, tmp, calls, calls_done,
                 errors_done, call_budget, history>>

\* one caller makes up to MaxSeqCalls calls, one after the other
SeqSpecInit ==
  /\ DispatchIdle
  /\ TrackerAtRest
  /\ call_budget = [t \in Threads |-> IF t = 1 THEN MaxSeqCalls ELSE 0]
  /\ AllocIdle
  /\ RetryIdle
  /\ StackIdle

SeqNext ==
  \/ TrackerNext
  \/ GetReport

SpecSeq == SeqSpecInit /\ [][SeqNext]_vars

\* ------------------------------ get_optimal_resource_allocation alone
TaskTypes ==
  {"default", "cpu_intensive", "memory_intensive", "gpu_required", "other"}

\* file_size: None, and the sizes at and just above the two thresholds
FileSizeValues == {NoSize, 0, HundredMB, HundredMB + 1, OneGB, OneGB + 1}

\* psutil.virtual_memory().available
AvailValues == {0, 90, 1000}

AllocSpecInit ==
  /\ DispatchAtRest
  /\ cpu_count \in 1..MaxCores
  /\ available_memory \in AvailValues
  /\ TrackerInit
  /\ AllocIdle
  /\ RetryIdle
  /\ StackIdle

\* one call of get_optimal_resource_allocation (lines 51-99)
AllocCall(tt, fs, mi) ==
  /\ alloc_args' = [task_type |-> tt, file_size |-> fs, memory_intensive |-> mi]
  /\ alloc_host' = <<cpu_count, available_memory>>
  /\ alloc_result' = Allocate(tt, fs, mi, cpu_count, available_memory)
  /\ alloc_prev' = IF alloc_args = NoCall
                     THEN alloc_prev
                     ELSE [args |-> alloc_args, host |-> alloc_host,
                           result |-> alloc_result]
  /\ UNCHANGED beside_alloc

AllocNext ==
  \E tt \in TaskTypes, fs \in FileSizeValues, mi \in BOOLEAN : AllocCall(tt, fs, mi)

SpecAlloc == AllocSpecInit /\ [][AllocNext]_vars

\* the host between two calls: the number of logical cores and the available
\* memory that psutil reports change
HostCores == {1, MaxCores}
HostAvail == {90, 1000}

HostChange(c, a) ==
  /\ <<c, a>> # <<cpu_count, available_memory>>
  /\ cpu_count' = c
  /\ available_memory' = a
  /\ UNCHANGED <<pc, items, batch_size, timeout, retry_param, dlocals,
                 progress_callback, task_type, memory_intensive, file_sizes,
                 tvars, avars, rvars, svars>>

AllocHostInit ==
  /\ DispatchAtRest
  /\ cpu_count \in HostCores
  /\ available_memory \in HostAvail
  /\ TrackerInit
  /\ AllocIdle
  /\ RetryIdle
  /\ StackIdle

AllocHostNext ==
  \/ \E tt \in TaskTypes, fs \in {NoSize, OneGB + 1}, mi \in BOOLEAN :
       AllocCall(tt, fs, mi)
  \/ \E c \in HostCores, a \in HostAvail : HostChange(c, a)

\* calls of get_optimal_resource_allocation on a host whose readings change
SpecAllocHost == AllocHostInit /\ [][AllocHostNext]_vars

\* ------------------------------------------------- retry(...)(func)(...)
\* the fractions that stand for the float values of the delay
RatMul(a, b) == <<a[1] * b[1], a[2] * b[2]>>
RatEq(a, b) == a[1] * b[2] = b[1] * a[2]

\* backoff_factor: 1, the default 1.5, and 2
BackoffValues == {<<1, 1>>, <<3, 2>>, <<2, 1>>}
DelayValues == {1, 2}

\* entries of the history rtrace
CallEvent(k) == [ev |-> "call", n |-> k, err |-> 0, d |-> <<0, 1>>]
HookEvent(e, a) == [ev |-> "hook", n |-> a, err |-> e, d |-> <<0, 1>>]
SleepEvent(d) == [ev |-> "sleep", n |-> 0, err |-> 0, d |-> d]

\* the decorator arguments (lines 89-93); the call enters wrapper (line 109)
RetryCallInit ==
  /\ rpc = "loop"
  /\ max_attempts \in 0..MaxAttempts
  /\ delay_seconds \in DelayValues
  /\ backoff_factor \in BackoffValues
  /\ on_retry \in BOOLEAN
  /\ attempt = 0
  /\ current_delay = <<delay_seconds, 1>>
  /\ outcomes = <<>>
  /\ rtrace = <<>>
  /\ rresult = NoResult

\* one call of a function wrapped by retry alone
RetrySpecInit ==
  /\ DispatchIdle
  /\ TrackerInit
  /\ AllocIdle
  /\ RetryCallInit
  /\ StackIdle

\* a test of the attempt count that lets one more iteration start
ExhaustedLate(att, max) == att > max

\* attempt >= max_attempts (line 118)
Exhausted(att, max) == att >= max

\* a delay that grows by addition
NextDelaySum(d, bf) == <<d[1] * bf[2] + bf[1] * d[2], d[2] * bf[2]>>

\* current_delay * backoff_factor (line 138)
NextDelay(d, bf) == RatMul(d, bf)

\* the sleep placed before the callback
SleepThenHook(hook, e, a, d) ==
  <<SleepEvent(d)>> \o (IF hook THEN <<HookEvent(e, a)>> ELSE <<>>)

\* if on_retry: on_retry(e, attempt), then time.sleep(current_delay)
\* (lines 131-135); the callback returns
HookThenSleep(hook, e, a, d) ==
  (IF hook THEN <<HookEvent(e, a)>> ELSE <<>>) \o <<SleepEvent(d)>>

\* what the steps of the wrapper leave alone
beside_retry == <<dvars, tvars, avars, svars, max_attempts, delay_seconds,
                  backoff_factor, on_retry>>

\* return func(*args, **kwargs) (line 114), func returning a value
AttemptReturns ==
  /\ rpc = "loop"
  /\ attempt < max_attempts
  /\ outcomes' = Append(outcomes, "ok")
  /\ rtrace' = Append(rtrace, CallEvent(Len(outcomes) + 1))
  /\ rresult' = [kind |-> "value", of |-> Len(outcomes) + 1]
  /\ rpc' = "returned"
  /\ UNCHANGED <<beside_retry, attempt, current_delay>>

\* an except clause that catches every exception
AttemptRaisesOtherCaught ==
  /\ rpc = "loop"
  /\ attempt < max_attempts
  /\ outcomes' = Append(outcomes, "other")
  /\ attempt' = attempt + 1
  /\ LET k == Len(outcomes) + 1
     IN  IF attempt + 1 >= max_attempts
           THEN /\ rtrace' = Append(rtrace, CallEvent(k))
                /\ rresult' = [kind |-> "error", of |-> k]
                /\ rpc' = "raised"
                /\ UNCHANGED current_delay
           ELSE /\ rtrace' = Append(rtrace, CallEvent(k)) \o
                               <<SleepEvent(current_delay)>>
                /\ current_delay' = RatMul(current_delay, backoff_factor)
                /\ UNCHANGED <<rpc, rresult>>
  /\ UNCHANGED beside_retry

\* func raises an exception that is no instance of exceptions: no handler
AttemptRaisesOther ==
  /\ rpc = "loop"
  /\ attempt < max_attempts
  /\ outcomes' = Append(outcomes, "other")
  /\ rtrace' = Append(rtrace, CallEvent(Len(outcomes) + 1))
  /\ rresult' = [kind |-> "error", of |-> Len(outcomes) + 1]
  /\ rpc' = "raised"
  /\ UNCHANGED <<beside_retry, attempt, current_delay>>

\* func raises an instance of exceptions (lines 115-138)
AttemptRaisesRetryable ==
  /\ rpc = "loop"
  /\ attempt < max_attempts
  /\ outcomes' = Append(outcomes, "retryable")
  /\ attempt' = attempt + 1
  /\ LET k == Len(outcomes) + 1
     IN  IF Exhausted(attempt + 1, max_attempts)
           THEN /\ rtrace' = Append(rtrace, CallEvent(k))
                /\ rresult' = [kind |-> "error", of |-> k]
                /\ rpc' = "raised"
                /\ UNCHANGED current_delay
           ELSE /\ rtrace' = Append(rtrace, CallEvent(k)) \o
                               HookThenSleep(on_retry, k, attempt + 1, current_delay)
                /\ current_delay' = NextDelay(current_delay, backoff_factor)
                /\ UNCHANGED <<rpc, rresult>>
  /\ UNCHANGED beside_retry

\* the while condition is false (line 112): wrapper ends and returns None
FallThrough ==
  /\ rpc = "loop"
  /\ ~(attempt < max_attempts)
  /\ rpc' = "fell_through"
  /\ rresult' = [kind |-> "None", of |-> 0]
  /\ UNCHANGED <<beside_retry, attempt, current_delay, outcomes, rtrace>>

RetryNext ==
  \/ AttemptReturns
  \/ AttemptRaisesOther
  \/ AttemptRaisesRetryable
  \/ FallThrough

SpecRetry == RetrySpecInit /\ [][RetryNext]_vars

\* ---------------- track_errors(with_ray_error_handling(retry(...)(func)))
\* classes of the exception that leaves the retry wrapper
RaisedClasses ==
  {"ValueError", "ray.RayTaskError", "ray.GetTimeoutError", "ray.RaySystemError",
   "ray.RayOutOfMemoryError", "ray.RayActorError"}

\* the except clauses of with_ray_error_handling (lines 71-86): the class
\* of the exception that leaves it
Translate(cls) ==
  CASE cls = "ray.RayTaskError" -> "RayTaskError"
    [] cls = "ray.GetTimeoutError" -> "TaskTimeoutError"
    [] cls = "ray.RaySystemError" -> "NetworkError"
    [] cls = "ray.RayOutOfMemoryError" -> "ResourceError"
    [] cls = "ray.RayActorError" -> "RayTaskError"
    [] OTHER -> cls

\* the stacked function is called: the call is in the retry wrapper
StackSpecInit ==
  /\ DispatchIdle
  /\ TrackerAtRest
  /\ call_budget = [t \in Threads |-> IF t = 1 THEN 1 ELSE 0]
  /\ AllocIdle
  /\ RetryCallInit
  /\ stack = [pc |-> "inner", error |-> ""]

\* what the steps of the two outer wrappers leave alone
beside_stack == <<dvars, avars, rvars>>

\* with_ray_error_handling: return func(*args, **kwargs) (lines 69-70), the
\* retry wrapper having returned
HandlerPasses ==
  /\ stack.pc = "inner"
  /\ rpc \in {"returned", "fell_through"}
  /\ stack' = [pc |-> "track_ok", error |-> ""]
  /\ UNCHANGED <<beside_stack, tvars>>

\* with_ray_error_handling: the retry wrapper raised an exception of class
\* cls, which one of the except clauses raises again (lines 71-86)
HandlerRaises(cls) ==
  /\ stack.pc = "inner"
  /\ rpc = "raised"
  /\ stack' = [pc |-> "track_error", error |-> Translate(cls)]
  /\ UNCHANGED <<beside_stack, tvars>>

\* track_errors: error_tracker.record_success() (line 259)
TrackSuccess ==
  /\ stack.pc = "track_ok"
  /\ CallSuccess(1)

\* track_errors: error_tracker.record_error(type(e).__name__, str(e))
\* (lines 261-264)
TrackError(m) ==
  /\ stack.pc = "track_error"
  /\ CallError(1, stack.error, m)

\* a wrapper that returns None once the error is recorded
StackSwallows ==
  /\ stack.pc = "track_error"
  /\ calls_done = 1
  /\ stack' = [pc |-> "returned", error |-> ""]
  /\ UNCHANGED <<beside_stack, tvars>>

\* track_errors: return result (line 260), record_success having returned
StackReturns ==
  /\ stack.pc = "track_ok"
  /\ calls_done = 1
  /\ stack' = [pc |-> "returned", error |-> ""]
  /\ UNCHANGED <<beside_stack, tvars>>

\* track_errors: raise (line 265), record_error having returned
StackReraises ==
  /\ stack.pc = "track_error"
  /\ calls_done = 1
  /\ stack' = [pc |-> "raised", error |-> stack.error]
  /\ UNCHANGED <<beside_stack, tvars>>

StackNext ==
  \/ RetryNext
  \/ HandlerPasses
  \/ \E cls \in RaisedClasses : HandlerRaises(cls)
  \/ TrackSuccess
  \/ \E m \in Messages : TrackError(m)
  \/ TrackerSteps
  \/ StackReturns
  \/ StackReraises

SpecStack == StackSpecInit /\ [][StackNext]_vars

\* ================================================================ claims
CountKind(s, kd) == Cardinality({k \in 1..Len(s) : s[k].kind = kd})

RetriesUsed == retry_param - retry_attempts

\* ---- C1: with batch_size = 1 the returned list is positionally aligned
\* with the input, whatever the order in which the futures resolve:
\* result[i] is the outcome of items[i].
C1_PositionalAlignment ==
  (pc = "done" /\ batch_size = 1 /\ ~timed_out) =>
    /\ Len(ret) = Len(items)
    /\ \A i \in 1..Len(items) :
         ret[i].kind \in {"ok", "error"} /\ ret[i].input = <<items[i]>>

\* ---- C2: with batch_size = 1 the returned list has as many entries as
\* there are items, whatever the mix of successes, failures, retries and
\* timeout.
C2_LengthEqualsItems ==
  (pc = "done" /\ batch_size = 1) => Len(ret) = Len(items)

C2_Witness ==
  /\ pc = "done" /\ batch_size = 1 /\ Len(items) = 3
  /\ timed_out /\ RetriesUsed > 0
  /\ CountKind(ret, "error") > 0 /\ CountKind(ret, "none") > 0

\* the results of batch b stand next to each other, in the batch's order
BatchInOrder(b) ==
  \E off \in 0..Len(ret) :
    \A j \in 1..Len(Batch(b)) :
      /\ off + j <= Len(ret)
      /\ ret[off + j].input = <<Batch(b)[j]>>

FlattenedComplete ==
  /\ Len(ret) = Len(items)
  /\ \A b \in 1..NumUnits : BatchInOrder(b)

C4_AlwaysFailingItem ==
  (pc = "done" /\ batch_size = 1 /\ ~timed_out) =>
    \A i \in Range(items) :
      successes[i] = 0 =>
        /\ attempts[i] <= retry_param + 1
        /\ \E k \in 1..Len(ret) :
             ret[k].kind = "error" /\ ret[k].input = <<i>>

\* ---- C5: the retry budget is per item: an item is given up (an error
\* entry is appended for it) only after its own failures were retried
\* retry_attempts times.
C5_PerItemBudget ==
  \A k \in 1..Len(results) :
    results[k].kind = "error" =>
      \A i \in Range(results[k].input) : retried[i] >= retry_param

\* ---- C6 (as claimed): when the timeout elapses with K of the N submitted
\* futures resolved, the call returns N-K None entries and K real outcomes.
C6_TimeoutCountsInitial ==
  (pc = "done" /\ timed_out /\ batch_size = 1) =>
    /\ CountKind(ret, "none") = Len(futures) - resolved
    /\ Len(ret) - CountKind(ret, "none") = resolved

\* ---- C6 (amended): when the timeout elapses with K of all S futures of
\* the call resolved (S counts the resubmitted futures too), the call returns
\* S-K None entries; with batch_size = 1 it returns K-r real outcomes, r the
\* number of failures that were resubmitted.
C6_TimeoutCountsAll ==
  (pc = "done" /\ timed_out) =>
    /\ CountKind(ret, "none") = Len(futures) + RetriesUsed - resolved
    /\ batch_size = 1 =>
         Len(ret) - CountKind(ret, "none") = resolved - RetriesUsed

C6_Witness ==
  /\ pc = "done" /\ timed_out /\ batch_size = 1
  /\ RetriesUsed > 0 /\ resolved >= 2
  /\ CountKind(ret, "none") >= 2 /\ CountKind(ret, "ok") >= 1

\* ---- C7: once M concurrent record_success / record_error calls have
\* completed, the report gives total_tasks = M and failed_tasks = the number
\* of record_error calls, for every interleaving.
C7_ConcurrentCountsExact ==
  (\A t \in Threads : tpc[t] = "idle") =>
    /\ ReportTotalTasks = calls_done
    /\ ReportFailedTasks = errors_done

\* ---- C8: no unit of work is dropped silently: every submitted item has an
\* entry of its own in the returned list (its payload, its error, or a
\* timeout sentinel), also when its first attempt failed and was retried.
\* Stated for the calls with batch_size = 1 that return without a timeout,
\* where no entry is a sentinel: every item has a payload or an error entry
\* of its own.
C8_NoSilentDrop ==
  (pc = "done" /\ ~timed_out /\ batch_size = 1) =>
    \A i \in Range(items) :
      \E k \in 1..Len(ret) :
        ret[k].kind \in {"ok", "error"} /\ i \in Range(ret[k].input)

\* ---- C9: a resubmitted future runs on the original input (item, or whole
\* batch) of the future that failed.
C9_RetryOnOriginalInput ==
  \A k \in 1..Len(pending_futures) :
    pending_futures[k].is_retry =>
      /\ pending_futures[k].input = pending_futures[k].orig
      /\ pending_futures[k].is_list = pending_futures[k].orig_list

\* ---- C10: distribute_tasks never raises to its caller because of a
\* failure local to one unit of work (execution, submission, resubmission).
C10_NeverRaises == pc \notin {"raised", "index_error"}

\* ---- C11: in a call with a progress callback where every future succeeds,
\* the callback is invoked once per submitted future, the k-th invocation
\* being (k, total) with total the number of submitted futures.  Stated at
\* every point of such a call: as long as no future has failed, the
\* invocations so far are (1,total),...,(completed,total), and when the call
\* returns without a timeout there are total of them.
NoFailureSoFar ==
  /\ pc \in {"drain", "done"}
  /\ retry_attempts = retry_param
  /\ CountKind(results, "error") = 0

C11_ProgressSequence ==
  (progress_callback /\ NoFailureSoFar) =>
    /\ progress = [k \in 1..completed |-> <<k, Len(futures)>>]
    /\ (pc = "done" /\ ~timed_out) => completed = Len(futures)

C11_Witness ==
  /\ progress_callback /\ NoFailureSoFar
  /\ pc = "done" /\ ~timed_out
  /\ batch_size > 1
  /\ Len(items) = MaxItems
  /\ Len(progress) = Len(futures)
  /\ Len(progress) > 1

\* ---- C19: a file_sizes whose length differs from that of items does not
\* make the call fail: the hints are discarded and every submission of the
\* call, resubmissions included, is allocated without a size hint.
Unsized(f) ==
  /\ f.hint = NoSize
  /\ f.resources =
       Allocate(task_type, NoSize, memory_intensive, cpu_count, available_memory)

SizesMismatch == Len(file_sizes) # Len(items)

C19_MismatchDiscardsHints ==
  SizesMismatch =>
    /\ pc # "index_error"
    /\ pc \in {"drain", "done"} => Len(futures) = NumUnits
    /\ \A k \in 1..Len(futures) : Unsized(futures[k])
    /\ \A k \in 1..Len(pending_futures) : Unsized(pending_futures[k])

C19_Witness ==
  /\ SizesMismatch
  /\ pc = "drain"
  /\ Len(items) = MaxSizedItems
  /\ Len(file_sizes) = Len(items) + 1
  /\ \A k \in 1..Len(file_sizes) : file_sizes[k] > HundredMB
  /\ \E k \in 1..Len(pending_futures) : pending_futures[k].is_retry

\* ---- C20: every terminal failure of a unit of work in a distribute_tasks
\* call is recorded in the process-wide error tracker: after the call its
\* failed_tasks has grown by the number of error entries the call returned
\* (the tracker starts the call at zero).
C20_FailuresRecorded ==
  pc = "done" => failed_tasks = CountKind(ret, "error")

\* ---- C12: get_optimal_resource_allocation applies its rules in priority
\* order, the first match winning: cpu_intensive; then the memory_intensive
\* class or flag; then gpu_required; then a size hint, by its tier; then the
\* default.  The returned dict is the one of the first rule that applies, for
\* every input combination.  (70% and 60% are the truncated products that
\* the code computes.)
AllocRules(a, cores, avail) ==
  << <<a.task_type = "cpu_intensive",
       [num_cpus |-> Max(1, cores - 1)]>>,
     <<a.task_type = "memory_intensive" \/ a.memory_intensive,
       [memory |-> SeventyPercent(avail), num_cpus |-> Max(1, cores \div 2)]>>,
     <<a.task_type = "gpu_required",
       [num_gpus |-> 1, num_cpus |-> 1]>>,
     <<a.file_size # NoSize /\ a.file_size > OneGB,
       [num_cpus |-> Max(2, cores \div 2), memory |-> SixtyPercent(avail)]>>,
     <<a.file_size # NoSize /\ a.file_size > HundredMB,
       [num_cpus |-> 2, memory |-> OneGiB]>>,
     <<a.file_size # NoSize,
       [num_cpus |-> 1]>>,
     <<TRUE,
       [num_cpus |-> 1]>> >>

FirstMatch(rules) ==
  LET k == CHOOSE i \in 1..Len(rules) :
             rules[i][1] /\ \A j \in 1..(i - 1) : ~rules[j][1]
  IN  rules[k][2]

Called == alloc_args # NoCall

C12_PriorityOrder ==
  Called =>
    alloc_result = FirstMatch(AllocRules(alloc_args, cpu_count, available_memory))

C12_Witness ==
  /\ Called
  /\ alloc_args.task_type = "gpu_required"
  /\ alloc_args.memory_intensive
  /\ alloc_args.file_size > OneGB
  /\ cpu_count = MaxCores
  /\ available_memory = 90
  /\ alloc_result = [memory |-> 62, num_cpus |-> 3]

\* ---- C13 (as claimed): for task class gpu_required the allocation is
\* exactly 1 CPU and 1 GPU, for every size hint, memory_intensive flag and
\* core count.
C13_GpuAlwaysOneOne ==
  (Called /\ alloc_args.task_type = "gpu_required") =>
    alloc_result = [num_cpus |-> 1, num_gpus |-> 1]

\* ---- C13 (amended): for task class gpu_required called without the
\* memory_intensive flag the allocation is exactly 1 CPU and 1 GPU, for every
\* size hint and core count.
C13_GpuOneOneWithoutFlag ==
  (Called /\ alloc_args.task_type = "gpu_required"
          /\ ~alloc_args.memory_intensive) =>
    alloc_result = [num_cpus |-> 1, num_gpus |-> 1]

C13_Witness ==
  /\ Called
  /\ alloc_args.task_type = "gpu_required"
  /\ ~alloc_args.memory_intensive
  /\ alloc_args.file_size > OneGB
  /\ cpu_count = MaxCores
  /\ alloc_result = [num_cpus |-> 1, num_gpus |-> 1]

\* ---- C14: get_optimal_resource_allocation is deterministic in its declared
\* inputs: two calls with identical (task_type, file_size, memory_intensive)
\* and unchanged readings of the logical cores and the available memory
\* return identical requests; and a call changes no state: neither the host
\* readings nor anything of the dispatcher or of the tracker.
SameCallAsBefore ==
  /\ Called
  /\ alloc_prev # NoPrev
  /\ alloc_prev.args = alloc_args
  /\ alloc_prev.host = alloc_host

HostSteady == cpu_count' = cpu_count /\ available_memory' = available_memory

AllRetryable == \A k \in 1..Len(outcomes) : outcomes[k] = "retryable"

Terminal == rpc \in {"returned", "raised", "fell_through"}

C15_AttemptCount ==
  max_attempts >= 1 =>
    /\ (Terminal /\ AllRetryable) =>
         /\ Len(outcomes) = max_attempts
         /\ rpc = "raised"
         /\ rresult = [kind |-> "error", of |-> max_attempts]
    /\ (rpc = "loop" /\ AllRetryable) => Len(outcomes) < max_attempts
    /\ \A k \in 1..Len(outcomes) :
         (outcomes[k] = "ok" /\ \A j \in 1..(k - 1) : outcomes[j] = "retryable") =>
           /\ k <= max_attempts
           /\ Len(outcomes) = k
           /\ rpc = "returned"
           /\ rresult = [kind |-> "value", of |-> k]

C15_Witness ==
  /\ max_attempts = MaxAttempts
  /\ rpc = "raised"
  /\ AllRetryable
  /\ Len(outcomes) = MaxAttempts

\* ---- C16: a sleep occurs only between a failed retryable attempt and the
\* next attempt, the k-th sleep lasts delay_seconds * backoff_factor^(k-1),
\* and no sleep follows the final failed attempt or a successful attempt.
RECURSIVE Pow(_, _)
Pow(b, e) == IF e = 0 THEN 1 ELSE b * Pow(b, e - 1)

Sleeps == SelectSeq(rtrace, LAMBDA e : e.ev = "sleep")

C16_SleepSchedule ==
  /\ \A k \in 1..Len(Sleeps) :
       RatEq(Sleeps[k].d, <<delay_seconds * Pow(backoff_factor[1], k - 1),
                            Pow(backoff_factor[2], k - 1)>>)
  /\ \A i \in 1..Len(rtrace) :
       rtrace[i].ev = "sleep" =>
         /\ \E j \in 1..(i - 1) :
              /\ rtrace[j].ev = "call"
              /\ outcomes[rtrace[j].n] = "retryable"
              /\ \A m \in (j + 1)..(i - 1) : rtrace[m].ev = "hook"
         /\ i < Len(rtrace) => rtrace[i + 1].ev = "call"
         /\ i = Len(rtrace) => rpc = "loop" /\ attempt < max_attempts

C16_Witness ==
  /\ Terminal
  /\ delay_seconds = 2
  /\ backoff_factor = <<3, 2>>
  /\ Len(Sleeps) = 2
  /\ RatEq(Sleeps[2].d, <<3, 1>>)
  /\ rtrace[Len(rtrace)].ev = "call"

\* ---- C17: the on_retry hook is invoked with (error, attempt number) before
\* each sleep, exactly once per sleep, with attempt numbers 1, 2, ... in
\* order and the error of the attempt that just failed; and when all
\* attempts fail the wrapper still propagates the last error of the wrapped
\* function.
Hooks == SelectSeq(rtrace, LAMBDA e : e.ev = "hook")

C17_HookBeforeSleep ==
  /\ ~on_retry => Len(Hooks) = 0
  /\ on_retry =>
       /\ Len(Hooks) = Len(Sleeps)
       /\ \A k \in 1..Len(Hooks) : Hooks[k].n = k
       /\ \A i \in 1..Len(rtrace) :
            /\ rtrace[i].ev = "sleep" =>
                 /\ i > 2
                 /\ rtrace[i - 1].ev = "hook"
                 /\ rtrace[i - 2].ev = "call"
                 /\ rtrace[i - 1].err = rtrace[i - 2].n
            /\ rtrace[i].ev = "hook" =>
                 /\ i < Len(rtrace)
                 /\ rtrace[i + 1].ev = "sleep"
       /\ (Terminal /\ AllRetryable /\ max_attempts >= 1) =>
            /\ rpc = "raised"
            /\ rresult = [kind |-> "error", of |-> Len(outcomes)]

C17_Witness ==
  /\ on_retry
  /\ rpc = "raised"
  /\ AllRetryable
  /\ Len(Hooks) = MaxAttempts - 1
  /\ Len(Hooks) > 1

\* ---- C18: after any sequence of record_success / record_error calls,
\* get_report returns success_rate = (total - failed) / total (0 when total
\* is 0), and for each error type percentage = type count / failed_tasks and
\* most_common_message = the message with the highest count for that type,
\* ties broken in favour of the message recorded first.  The numbers are
\* those of the calls made before the report.
Reported == SubSeq(history, 1, report.after)

ErrorCalls(h) == {k \in 1..Len(h) : h[k] # NoArg}

TypeCalls(h, ty) == {k \in 1..Len(h) : h[k] # NoArg /\ h[k].type = ty}

MsgCalls(h, ty, m) == {k \in 1..Len(h) : h[k] = [type |-> ty, msg |-> m]}

FirstOf(S) == CHOOSE k \in S : \A j \in S : k <= j

\* m was recorded more often than m2 for ty, or as often and earlier
Beats(h, ty, m, m2) ==
  \/ Cardinality(MsgCalls(h, ty, m)) > Cardinality(MsgCalls(h, ty, m2))
  \/ /\ Cardinality(MsgCalls(h, ty, m)) = Cardinality(MsgCalls(h, ty, m2))
     /\ FirstOf(MsgCalls(h, ty, m)) < FirstOf(MsgCalls(h, ty, m2))

C18_ReportFigures ==
  report # NoReport =>
    LET h == Reported
        total == Len(h)
        failed == Cardinality(ErrorCalls(h))
    IN  /\ RatEq(report.success_rate,
                 IF total = 0 THEN <<0, 1>> ELSE <<total - failed, total>>)
        /\ DOMAIN report.error_types = {h[k].type : k \in ErrorCalls(h)}
        /\ \A ty \in DOMAIN report.error_types :
             LET r == report.error_types[ty]
             IN  /\ RatEq(r.percentage, <<Cardinality(TypeCalls(h, ty)), failed>>)
                 /\ MsgCalls(h, ty, r.most_common_message) # {}
                 /\ \A m2 \in Messages \ {r.most_common_message} :
                      MsgCalls(h, ty, m2) # {} =>
                        Beats(h, ty, r.most_common_message, m2)

C18_Witness ==
  /\ report # NoReport
  /\ report.after = MaxSeqCalls
  /\ history[1] = NoArg
  /\ history[2] = [type |-> "KeyError", msg |-> "m2"]
  /\ history[3] = [type |-> "KeyError", msg |-> "m1"]
  /\ report.error_types["KeyError"].most_common_message = "m2"
  /\ report.success_rate = <<1, 3>>

\* ---- C21: with batch_size = B > 1 the items are partitioned into contiguous
\* batches of B items in input order (only the last may be shorter, no item
\* lost or duplicated), one future is submitted per batch, and the
\* allocation of a batch is computed from the largest size hint among the
\* items of that batch.
RECURSIVE Inputs(_)
Inputs(fs) == IF fs = <<>> THEN <<>> ELSE Head(fs).input \o Inputs(Tail(fs))

LargestOf(S) == CHOOSE m \in S : \A x \in S : x <= m

\* the largest hint of the items of future f (items are their positions)
LargestHint(f) ==
  IF Len(file_sizes) = Len(items)
    THEN LargestOf({file_sizes[i] : i \in Range(f.input)})
    ELSE NoSize

C21_BatchPartition ==
  (batch_size > 1 /\ pc \in {"drain", "done"}) =>
    /\ Inputs(futures) = items
    /\ \A k \in 1..Len(futures) :
         /\ futures[k].is_list
         /\ Len(futures[k].input) \in 1..batch_size
         /\ k < Len(futures) => Len(futures[k].input) = batch_size
         /\ futures[k].resources =
              Allocate(task_type, LargestHint(futures[k]), memory_intensive,
                       cpu_count, available_memory)

C21_Witness ==
  /\ pc = "drain"
  /\ batch_size = 2
  /\ Len(items) = 3
  /\ file_sizes = <<50000000, 200000000, 50000000>>
  /\ Len(futures) = 2
  /\ futures[1].hint = 200000000
  /\ futures[2].input = <<3>>
  /\ futures[1].resources # futures[2].resources

\* ---- C22: when a ready future resolves to a failure and the call goes on:
\* with a retry budget > 0 the budget decreases by exactly 1, exactly one new
\* future joins the pending ones and no result entry is appended for the
\* failure; with a budget of 0 exactly one error entry is appended, no
\* future is added, and the loop continues with the other futures (unless
\* the timeout check of the same iteration ends it).
FailureStep ==
  /\ pc = "drain"
  /\ resolved' = resolved + 1
  /\ completed' = completed

RetriedStep ==
  /\ retry_attempts' = retry_attempts - 1
  /\ \E k \in 1..Len(pending_futures) :
       /\ Len(pending_futures') = Len(pending_futures)
       /\ SubSeq(pending_futures', 1, Len(pending_futures) - 1) =
            Remove(pending_futures, k)
       /\ pending_futures'[Len(pending_futures')].is_retry
  /\ CountKind(results', "ok") = CountKind(results, "ok")
  /\ CountKind(results', "error") = CountKind(results, "error")
  /\ ~timed_out' => results' = results /\ pc' = "drain"

GivenUpStep ==
  /\ retry_attempts' = 0
  /\ \E k \in 1..Len(pending_futures) :
       /\ pending_futures' = Remove(pending_futures, k)
       /\ SubSeq(results', 1, Len(results) + 1) =
            Append(results, ErrorResult(pending_futures[k]))
  /\ CountKind(results', "error") = CountKind(results, "error") + 1
  /\ CountKind(results', "ok") = CountKind(results, "ok")
  /\ ~timed_out' =>
       /\ Len(results') = Len(results) + 1
       /\ pending_futures' # <<>> => pc' = "drain"

C22_FailureHandling ==
  [][FailureStep => IF retry_attempts > 0 THEN RetriedStep ELSE GivenUpStep]_vars

C22_Witness ==
  /\ pc = "drain"
  /\ retry_param = MaxRetry
  /\ retry_attempts = 0
  /\ CountKind(results, "error") = 1
  /\ resolved = MaxRetry + 1
  /\ completed = 0

\* ---- C23: with batch_size > 1 the final flattening expands each batch
\* result that is a sequence into its elements in order, and keeps a batch
\* result that is not a sequence (an error entry or a timeout sentinel of
\* the whole batch) as a single entry of the output.
Width(r) == IF r.is_list THEN Len(r.input) ELSE 1

RECURSIVE Offset(_, _)
Offset(res, k) == IF k = 1 THEN 0 ELSE Offset(res, k - 1) + Width(res[k - 1])

C23_Flattening ==
  (pc = "done" /\ batch_size > 1) =>
    /\ Len(ret) = Offset(results, Len(results) + 1)
    /\ \A k \in 1..Len(results) :
         LET r == results[k]
             o == Offset(results, k)
         IN  IF r.is_list
               THEN \A j \in 1..Len(r.input) :
                      ret[o + j] = [kind |-> r.kind, input |-> <<r.input[j]>>,
                                    is_list |-> FALSE]
               ELSE ret[o + 1] = r

C23_Witness ==
  /\ pc = "done" /\ batch_size = 2 /\ Len(items) = 3
  /\ Len(results) = 2
  /\ results[1].kind = "error" /\ Len(results[1].input) = 2
  /\ results[2].is_list
  /\ Len(ret) = 2
  /\ ret[1] = results[1]

\* ---- C24: an error of the wrapped function that does not match the
\* retryable exceptions propagates to the caller immediately: the function
\* is not invoked again, no sleep occurs and on_retry is not called.
C24_OtherErrorPropagates ==
  \A k \in 1..Len(outcomes) :
    outcomes[k] = "other" =>
      /\ k = Len(outcomes)
      /\ rpc = "raised"
      /\ rresult = [kind |-> "error", of |-> k]
      /\ rtrace[Len(rtrace)] = CallEvent(k)

C24_Witness ==
  /\ max_attempts = MaxAttempts
  /\ on_retry
  /\ outcomes = <<"retryable", "other">>
  /\ rpc = "raised"
  /\ Len(rtrace) = 4

\* ---- C25: a call of a function stacked as
\* track_errors(with_ray_error_handling(retry(fn))) records exactly one
\* outcome in the error tracker whatever the number of inner attempts: one
\* success if some attempt succeeds, one error only when the retries are
\* exhausted or a non-retryable error occurs; the error is raised again to
\* the caller after it was recorded.
RetriesExhausted ==
  /\ Len(outcomes) = max_attempts
  /\ \A k \in 1..Len(outcomes) : outcomes[k] = "retryable"

C25_OneOutcomePerCall ==
  /\ stack.pc = "inner" =>
       history = <<>> /\ total_tasks = 0 /\ calls[1] = 0
  /\ stack.pc \in {"returned", "raised"} =>
       /\ Len(history) = 1
       /\ total_tasks = 1
       /\ stack.pc = "returned" =>
            /\ rpc \in {"returned", "fell_through"}
            /\ history[1] = NoArg
            /\ failed_tasks = 0
       /\ stack.pc = "raised" =>
            /\ rpc = "raised"
            /\ RetriesExhausted \/ outcomes[Len(outcomes)] = "other"
            /\ history[1] # NoArg
            /\ history[1].type = stack.error
            /\ failed_tasks = 1
       /\ (\E k \in 1..Len(outcomes) : outcomes[k] = "ok") =>
            stack.pc = "returned"
  /\ stack.pc = "raised" => calls_done = 1

C25_Witness ==
  /\ stack.pc = "raised"
  /\ stack.error = "TaskTimeoutError"
  /\ max_attempts = MaxAttempts
  /\ Len(outcomes) = MaxAttempts
  /\ history = <<[type |-> "TaskTimeoutError", msg |-> "m1"]>>

\* ---- C26: if every submitted future resolves in the end and retry_attempts
\* is finite, the drain loop terminates and the call ends, also without a
\* timeout and when every attempt fails; it ends by returning unless a
\* .remote() call was rejected (C10).
C26_Terminates == <>(pc \in {"done", "raised"})

C26_Witness ==
  /\ pc = "done"
  /\ ~timeout
  /\ Len(items) = MaxItems
  /\ batch_size = 1
  /\ retry_param = MaxRetry
  /\ completed = 0
  /\ resolved = MaxItems + MaxRetry
  /\ CountKind(results, "error") = MaxItems

\* ---- C27: within one call the number of futures ever submitted is at most
\* the number of initial units plus retry_attempts: the retry budget only
\* decreases, never goes below 0, and each resubmission consumes one unit
\* of it.
\* every future submitted so far was handed back by ray.wait or is pending
SubmittedEver == resolved + Len(pending_futures)

Resubmitted == SubmittedEver - Len(futures)

BudgetAccount ==
  /\ retry_attempts \in 0..retry_param
  /\ pc \in {"drain", "done"} =>
       /\ Len(futures) = NumUnits
       /\ Resubmitted = retry_param - retry_attempts
       /\ SubmittedEver <= NumUnits + retry_param

C27_BoundedSubmissions ==
  /\ []BudgetAccount
  /\ [][/\ retry_attempts' <= retry_attempts
        /\ resolved' = resolved + 1 =>
             (Len(pending_futures') = Len(pending_futures) <=>
                retry_attempts' = retry_attempts - 1)]_vars

C27_Witness ==
  /\ pc = "drain"
  /\ batch_size = MaxBatch
  /\ retry_param = MaxRetry
  /\ retry_attempts = 0
  /\ NumUnits = 2
  /\ SubmittedEver = 2 + MaxRetry
  /\ Len(pending_futures) = 2

\* ---- C28: whenever the drain loop resubmits after a failure, the index it
\* uses (the count of futures completed successfully so far) is a valid
\* index of items, with and without batches: the resubmission never fails
\* with an out-of-range access.
C28_RetryIndexValid ==
  /\ pc # "index_error"
  /\ (pc = "drain" /\ pending_futures # <<>>) =>
       /\ RetryIndex(completed) \in 1..Len(items)
       /\ completed + Len(pending_futures) <= NumUnits
  /\ \A k \in 1..Len(pending_futures) :
       pending_futures[k].is_retry =>
         \E i \in 1..Len(items) : pending_futures[k].input = <<items[i]>>

C28_Witness ==
  /\ pc = "drain"
  /\ batch_size = 1
  /\ Len(items) = MaxItems
  /\ completed = MaxItems - 1
  /\ Len(pending_futures) = 1
  /\ pending_futures[1].is_retry
  /\ pending_futures[1].input = <<items[MaxItems]>>

\* ---- C29: a future resubmitted after a failure is submitted with the
\* resource request that was computed for the original submission of the
\* unit that failed, also when size hints give the units different requests.
C29_SameRequestOnRetry ==
  \A k \in 1..Len(pending_futures) :
    pending_futures[k].is_retry =>
      pending_futures[k].resources = pending_futures[k].orig_resources

\* ---- C30: after any sequence of record_success / record_error calls made
\* one after the other, 0 <= failed_tasks <= total_tasks, the per-type counts
\* add up to failed_tasks, and for each error type the per-message counts add
\* up to the count of the type; record_success changes only total_tasks.
RECURSIVE SumOver(_, _)
SumOver(f, S) ==
  IF S = {} THEN 0
  ELSE LET x == CHOOSE y \in S : TRUE
       IN  f[x] + SumOver(f, S \ {x})

TypeCount(ty) == heap[error_counts[ty]].count

TrackerCountsAgree ==
  (\A t \in Threads : tpc[t] = "idle") =>
    /\ 0 <= failed_tasks
    /\ failed_tasks <= total_tasks
    /\ SumOver([ty \in DOMAIN error_counts |-> TypeCount(ty)],
               DOMAIN error_counts) = failed_tasks
    /\ \A ty \in DOMAIN error_counts :
         LET msgs == heap[error_counts[ty]].messages
         IN  SumOver(msgs, DOMAIN msgs) = TypeCount(ty)

InRecordSuccess(pcs) == \E t \in Threads : pcs[t] \in {"s_read", "s_write"}

SuccessOnlyCountsTotal ==
  (InRecordSuccess(tpc) \/ InRecordSuccess(tpc')) =>
    /\ failed_tasks' = failed_tasks
    /\ heap' = heap
    /\ error_counts' = error_counts
    /\ total_tasks' =
         IF \E t \in Threads : tpc[t] = "s_write" THEN total_tasks + 1
                                                  ELSE total_tasks

C30_CountsAgree == []TrackerCountsAgree /\ [][SuccessOnlyCountsTotal]_vars

C30_Witness ==
  /\ \A t \in Threads : tpc[t] = "idle"
  /\ calls_done = MaxSeqCalls
  /\ history[1] = [type |-> "ValueError", msg |-> "m1"]
  /\ history[2] = [type |-> "ValueError", msg |-> "m2"]
  /\ history[MaxSeqCalls] = NoArg
  /\ total_tasks = MaxSeqCalls
  /\ failed_tasks = MaxSeqCalls - 1
  /\ TypeCount("ValueError") = 2

====
